---- MODULE Spec2Model ----
(***************************************************************************)
(* A model of the Astron client agent (src/clientagent/ClientAgent.cpp):   *)
(* the start-up of ClientAgent (configuration constraints, the             *)
(* constructor, transport selection, bind and start), the accept           *)
(* callbacks handle_tcp / handle_ssl, and the ChannelTracker helper        *)
(* (alloc_channel / free_channel) that the client sessions call.           *)
(*                                                                         *)
(* channel_t is scaled down from 64 bits to the values 0..ChannelTop;      *)
(* the cursor increment m_next++ is arithmetic modulo ChannelTop + 1.      *)
(***************************************************************************)
EXTENDS Integers, Sequences, FiniteSets, TLC

(***************************************************************************)
(* Bounds of the model.                                                    *)
(***************************************************************************)
\* largest value of the (scaled) unsigned type channel_t
ChannelTop == 4
\* number of alloc_channel / free_channel calls the sessions make in a run
MaxOps == 4
\* number of client sessions the factory builds in a run
MaxClients == 1

(***************************************************************************)
(* Program constants.                                                      *)
(***************************************************************************)
\* core/types.h: the channel that is never valid (default of channels.min/max)
INVALID_CHANNEL == 0
\* the last channel of the reserved prefix 1..ReservedMax (scaled)
ReservedMax == 1
\* alloc_channel's "no channel left" result: return 0
EXHAUSTED == 0

Channels == 0..ChannelTop

\* ConfigVariable defaults, lines 14-22 and 42
DefaultBind == "0.0.0.0:7198"
DefaultClientType == "libastron"

\* bind_addr.get_val(): the variable read without a role node yields its default
bind_addr_get_val == DefaultBind

(***************************************************************************)
(* Configuration inputs (bounded).                                         *)
(***************************************************************************)
BindAddrs == {DefaultBind, "10.0.0.5:7100", "not-an-address"}
CertPaths == {"", "cert.pem"}
KeyPaths == {"", "key.pem"}
ChainPaths == {"", "chain.pem"}
ClientTypes == {DefaultClientType, "nosuchclient"}
Overrides == {0, 1}
DCFiles == {"dcA", "dcB"}

\* a working configuration; every other configuration of the model differs
\* from it in one group of options (bind, hash, tls, channels, client)
BaseConfig ==
    [bind |-> DefaultBind, override |-> 0, cert |-> "", key |-> "", chain |-> "",
     min |-> ReservedMax + 1, max |-> ReservedMax + 2, ctype |-> DefaultClientType]

Configs ==
    {[BaseConfig EXCEPT !.bind = b] : b \in BindAddrs}
    \cup {[BaseConfig EXCEPT !.override = o] : o \in Overrides}
    \cup {[BaseConfig EXCEPT !.cert = c[1], !.key = c[2], !.chain = c[3]] :
             c \in CertPaths \X KeyPaths \X ChainPaths}
    \cup {[BaseConfig EXCEPT !.min = r[1], !.max = r[2]] : r \in Channels \X Channels}
    \cup {[BaseConfig EXCEPT !.ctype = t] : t \in ClientTypes}

VARIABLES
    cfg,                \* the role's configuration node (roleconfig)
    g_dcf,              \* the loaded DC file
    pc,                 \* position of the process
    exit_status,        \* 0 while the process lives, the exit code after exit()
    log,                \* fatal diagnostics written to m_log, oldest first
    m_client_type,      \* ClientAgent::m_client_type
    m_clientconfig,     \* ClientAgent::m_clientconfig
    m_hash,             \* ClientAgent::m_hash
    m_net_acceptor,     \* ClientAgent::m_net_acceptor (NullAcceptor = nullptr)
    acceptors,          \* the acceptor objects constructed so far (by kind)
    ctx_options,        \* options of the ssl::context local to the constructor
    bind_arg,           \* the address handed to bind(), "" before the call
    m_next,             \* ChannelTracker::m_next (the cursor)
    m_max,              \* ChannelTracker::m_max
    m_unused_channels,  \* ChannelTracker::m_unused_channels (front first)
    nclients,           \* client sessions the factory has built
    lastAccept,         \* outcome of the latest accept callback
    factory_calls,      \* every instantiate_client call, oldest first
    \* history of the tracker calls
    ct_min,             \* the min the tracker was constructed with
    lastOp,             \* "none", "alloc" or "free": the latest tracker call
    ret,                \* value returned by the latest alloc_channel
    path,               \* branch the latest alloc_channel took
    arg,                \* argument of the latest free_channel
    live,               \* live[c]: allocations that returned c, not yet released
    nAlloc,             \* alloc_channel calls so far
    nFree,              \* free_channel calls so far
    relLog,             \* every released id, in release order
    nReused,            \* alloc_channel calls served from the queue
    contract,           \* every free_channel so far was given a live id
    \* threads inside the tracker (used by SpecThreads only)
    tpc,                \* tpc[t]: the statement thread t is at
    tloc                \* tloc[t]: what thread t has read so far

agentVars == <<m_client_type, m_clientconfig, m_hash, m_net_acceptor, acceptors,
               ctx_options, bind_arg>>
trackerVars == <<m_next, m_max, m_unused_channels>>
histVars == <<ct_min, lastOp, ret, path, arg, live, nAlloc, nFree, relLog, nReused,
              contract>>
procVars == <<cfg, g_dcf, pc, exit_status, log>>
sessVars == <<nclients, lastAccept, factory_calls>>
threadVars == <<tpc, tloc>>
vars == <<procVars, agentVars, trackerVars, histVars, sessVars, threadVars>>

Threads == {"t1", "t2"}
NoLocal == [c |-> INVALID_CHANNEL, q |-> <<>>]

NullAcceptor == [kind |-> "null", bound |-> "", started |-> FALSE]
NoConfig == [type |-> ""]


(***************************************************************************)
(* Configuration constraints (lines 17-48).  The constraint classes and    *)
(* the framework step that evaluates them before a role is constructed     *)
(* live in config/; the declarations below say which variable each one     *)
(* guards.                                                                 *)
(***************************************************************************)
\* ValidAddressConstraint
IsValidAddress(a) == a # "not-an-address"
\* InvalidChannelConstraint
IsNotInvalidChannel(c) == c # INVALID_CHANNEL
\* ReservedChannelConstraint
IsNotReservedChannel(c) == ~(c >= 1 /\ c <= ReservedMax)
\* FileAvailableConstraint: an unset path is accepted, a set path must be readable
IsFileAvailable(f, readable) == f = "" \/ readable
\* ClientFactory::has_client_type: the types registered with the factory
RegisteredClientTypes == {DefaultClientType}

valid_bind_addr(c) == IsValidAddress(c.bind)
tls_cert_exists(c, readable) == IsFileAvailable(c.cert, readable)
tls_key_exists(c, readable) == IsFileAvailable(c.key, readable)
tls_chain_exists(c, readable) == IsFileAvailable(c.chain, readable)
min_not_invalid(c) == IsNotInvalidChannel(c.min)
max_not_invalid(c) == IsNotInvalidChannel(c.max)
min_not_reserved(c) == IsNotReservedChannel(c.min)
max_not_reserved(c) == IsNotReservedChannel(c.max)

have_client_type_always(backend) == TRUE
have_client_type(backend) == backend \in RegisteredClientTypes
client_type_exists(c) == have_client_type(c.ctype)

\* every constraint the file declares; fs[i] says whether the i-th file is readable
ConstraintsHold(c, fs) ==
    /\ valid_bind_addr(c)
    /\ tls_cert_exists(c, fs[1])
    /\ tls_key_exists(c, fs[2])
    /\ tls_chain_exists(c, fs[3])
    /\ min_not_invalid(c)
    /\ max_not_invalid(c)
    /\ min_not_reserved(c)
    /\ max_not_reserved(c)
    /\ client_type_exists(c)

(***************************************************************************)
(* Pure helpers of the constructor.                                        *)
(***************************************************************************)
\* dclass::legacy_hash: a pure fingerprint of the DC file, never 0 here
legacy_hash(dcf) == IF dcf = "dcA" THEN 2 ELSE 3

\* the override ignored: the hash always computed from the DC file
ResolveHash_ignores_override(config_hash, dcf) == legacy_hash(dcf)

\* lines 69-77
ResolveHash(config_hash, dcf) == IF config_hash > 0 THEN config_hash ELSE legacy_hash(dcf)

\* lines 84, 94, 101: the if / else-if / else chain on (certificate, key_file)
TransportChoice_either_empty(certificate, key_file) ==
    IF certificate = "" \/ key_file = "" THEN "tcp" ELSE "ssl"
TransportChoice(certificate, key_file) ==
    IF certificate = "" /\ key_file = "" THEN "tcp"
    ELSE IF (certificate = "") # (key_file = "") THEN "fatal"
    ELSE "ssl"

\* lines 104-116
SslOptions(sslv2, sslv3, tlsv1) ==
    {"default_workarounds"}
    \cup (IF ~sslv2 THEN {"no_sslv2"} ELSE {})
    \cup (IF ~sslv3 THEN {"no_sslv3"} ELSE {})
    \cup (IF ~tlsv1 THEN {"no_tlsv1"} ELSE {})

(***************************************************************************)
(* ChannelTracker (lines 214-240).                                         *)
(***************************************************************************)
\* m_next++ on the unsigned type
Inc(c) == (c + 1) % (ChannelTop + 1)

\* the cursor test written as m_next < m_max
alloc_channel_strict(next, max, unused) ==
    IF next < max
    THEN [ret |-> next, path |-> "cursor", next |-> Inc(next), unused |-> unused]
    ELSE IF unused # <<>>
         THEN [ret |-> Head(unused), path |-> "queue", next |-> next,
               unused |-> Tail(unused)]
         ELSE [ret |-> EXHAUSTED, path |-> "exhausted", next |-> next,
               unused |-> unused]

\* the reuse queue consulted before the cursor
alloc_channel_queue_first(next, max, unused) ==
    IF unused # <<>>
    THEN [ret |-> Head(unused), path |-> "queue", next |-> next,
          unused |-> Tail(unused)]
    ELSE IF next <= max
         THEN [ret |-> next, path |-> "cursor", next |-> Inc(next), unused |-> unused]
         ELSE [ret |-> EXHAUSTED, path |-> "exhausted", next |-> next,
               unused |-> unused]

\* lines 219-235: the value returned, the branch taken and the new state
alloc_channel(next, max, unused) ==
    IF next <= max
    THEN [ret |-> next, path |-> "cursor", next |-> Inc(next), unused |-> unused]
    ELSE IF unused # <<>>
         THEN [ret |-> Head(unused), path |-> "queue", next |-> next,
               unused |-> Tail(unused)]
         ELSE [ret |-> EXHAUSTED, path |-> "exhausted", next |-> next,
               unused |-> unused]

\* a release that drops an id already waiting in the queue
free_channel_dedup(unused, channel) ==
    IF \E i \in 1..Len(unused) : unused[i] = channel THEN unused
    ELSE Append(unused, channel)

\* lines 237-240: the new queue
free_channel(unused, channel) == Append(unused, channel)

(***************************************************************************)
(* Initial state: the process has loaded its configuration and DC file;    *)
(* nothing of the role exists yet (m_ct is default-constructed).           *)
(***************************************************************************)
Init ==
    /\ cfg \in Configs
    /\ g_dcf \in (IF cfg \in {[BaseConfig EXCEPT !.override = o] : o \in Overrides}
                  THEN DCFiles ELSE {"dcA"})
    /\ pc = "boot"
    /\ exit_status = 0
    /\ log = <<>>
    /\ m_client_type = ""
    /\ m_clientconfig = NoConfig
    /\ m_hash = 0
    /\ m_net_acceptor = NullAcceptor
    /\ acceptors = {}
    /\ ctx_options = {}
    /\ bind_arg = ""
    /\ m_next = INVALID_CHANNEL
    /\ m_max = INVALID_CHANNEL
    /\ m_unused_channels = <<>>
    /\ nclients = 0
    /\ lastAccept = "none"
    /\ factory_calls = <<>>
    /\ ct_min = INVALID_CHANNEL
    /\ lastOp = "none"
    /\ ret = EXHAUSTED
    /\ path = "none"
    /\ arg = INVALID_CHANNEL
    /\ live = [c \in Channels |-> 0]
    /\ nAlloc = 0
    /\ nFree = 0
    /\ relLog = <<>>
    /\ nReused = 0
    /\ contract = TRUE
    /\ tpc = [t \in Threads |-> "idle"]
    /\ tloc = [t \in Threads |-> NoLocal]

(***************************************************************************)
(* Start-up.                                                               *)
(***************************************************************************)
Fatal(msg, what) == [level |-> "fatal", msg |-> msg, arg |-> what]

\* the configuration satisfies every declared constraint: the role is built
ValidateOk ==
    /\ pc = "boot"
    /\ \E fs \in [1..3 -> BOOLEAN] : ConstraintsHold(cfg, fs)
    /\ pc' = "ctor"
    /\ UNCHANGED <<threadVars, cfg, g_dcf, exit_status, log, agentVars, trackerVars, histVars,
                   sessVars>>

\* some constraint is violated: the process reports it and exits
ValidateFail ==
    /\ pc = "boot"
    /\ \E fs \in [1..3 -> BOOLEAN] : ~ConstraintsHold(cfg, fs)
    /\ pc' = "exited"
    /\ exit_status' = 1
    /\ log' = Append(log, Fatal("constraint violated", ""))
    /\ UNCHANGED <<threadVars, cfg, g_dcf, agentVars, trackerVars, histVars, sessVars>>

\* lines 50-66: client type, channel tracker, client configuration
CtorMembers ==
    /\ pc = "ctor"
    /\ m_client_type' = cfg.ctype
    /\ m_next' = cfg.min
    /\ m_max' = cfg.max
    /\ m_unused_channels' = <<>>
    /\ ct_min' = cfg.min
    /\ m_clientconfig' = [type |-> cfg.ctype]
    /\ pc' = "hash"
    /\ UNCHANGED <<threadVars, cfg, g_dcf, exit_status, log, m_hash, m_net_acceptor, acceptors,
                   ctx_options, bind_arg, sessVars,
                   lastOp, ret, path, arg, live, nAlloc, nFree, relLog, nReused,
                   contract>>

\* lines 68-77
CtorHash ==
    /\ pc = "hash"
    /\ m_hash' = ResolveHash(cfg.override, g_dcf)
    /\ pc' = "transport"
    /\ UNCHANGED <<threadVars, cfg, g_dcf, exit_status, log, m_client_type, m_clientconfig,
                   m_net_acceptor, acceptors, ctx_options, bind_arg, trackerVars,
                   histVars, sessVars>>

\* lines 84-91
SelectTcp ==
    /\ pc = "transport"
    /\ TransportChoice(cfg.cert, cfg.key) = "tcp"
    /\ m_net_acceptor' = [kind |-> "tcp", bound |-> "", started |-> FALSE]
    /\ acceptors' = acceptors \cup {"tcp"}
    /\ pc' = "bind"
    /\ UNCHANGED <<threadVars, cfg, g_dcf, exit_status, log, m_client_type, m_clientconfig, m_hash,
                   ctx_options, bind_arg, trackerVars, histVars, sessVars>>

\* lines 94-98
SelectFatal ==
    /\ pc = "transport"
    /\ TransportChoice(cfg.cert, cfg.key) = "fatal"
    /\ log' = Append(log, Fatal("TLS requested but either certificate or key is missing.", ""))
    /\ exit_status' = 1
    /\ pc' = "exited"
    /\ UNCHANGED <<threadVars, cfg, g_dcf, agentVars, trackerVars, histVars, sessVars>>

\* lines 101-132, every file loaded
SelectSsl ==
    /\ pc = "transport"
    /\ TransportChoice(cfg.cert, cfg.key) = "ssl"
    /\ \E sslv2, sslv3, tlsv1 \in BOOLEAN : ctx_options' = SslOptions(sslv2, sslv3, tlsv1)
    /\ m_net_acceptor' = [kind |-> "ssl", bound |-> "", started |-> FALSE]
    /\ acceptors' = acceptors \cup {"ssl"}
    /\ pc' = "bind"
    /\ UNCHANGED <<threadVars, cfg, g_dcf, exit_status, log, m_client_type, m_clientconfig, m_hash,
                   bind_arg, trackerVars, histVars, sessVars>>

\* lines 119-127: use_certificate_file, use_private_key_file or
\* use_certificate_chain_file throws; nothing in the constructor catches it
SelectSslThrows ==
    /\ pc = "transport"
    /\ TransportChoice(cfg.cert, cfg.key) = "ssl"
    /\ \E sslv2, sslv3, tlsv1 \in BOOLEAN : ctx_options' = SslOptions(sslv2, sslv3, tlsv1)
    /\ pc' = "threw"
    /\ UNCHANGED <<threadVars, cfg, g_dcf, exit_status, log, m_client_type, m_clientconfig, m_hash,
                   m_net_acceptor, acceptors, bind_arg, trackerVars, histVars, sessVars>>

\* the address read without the role's node, as the diagnostic of line 140 does
BindAddress_global == bind_addr_get_val
\* line 136: bind_addr.get_rval(m_roleconfig)
BindAddress == cfg.bind

\* lines 135-137, ec.value() = 0
BindOk ==
    /\ pc = "bind"
    /\ bind_arg' = BindAddress
    /\ m_net_acceptor' = [m_net_acceptor EXCEPT !.bound = BindAddress]
    /\ pc' = "start"
    /\ UNCHANGED <<threadVars, cfg, g_dcf, exit_status, log, m_client_type, m_clientconfig, m_hash,
                   acceptors, ctx_options, trackerVars, histVars, sessVars>>

\* the bind error logged and the constructor carrying on to start()
BindFail_continues ==
    /\ pc = "bind"
    /\ \E ec \in {13, 98} :
          log' = log \o <<Fatal("Could not bind listening port: ", bind_addr_get_val),
                          Fatal("Error code: ", ec)>>
    /\ bind_arg' = BindAddress
    /\ exit_status' = exit_status
    /\ pc' = "start"
    /\ UNCHANGED <<threadVars, cfg, g_dcf, m_client_type, m_clientconfig, m_hash, m_net_acceptor,
                   acceptors, ctx_options, trackerVars, histVars, sessVars>>

\* lines 135-145, ec.value() # 0
BindFail ==
    /\ pc = "bind"
    /\ \E ec \in {13, 98} :
          log' = log \o <<Fatal("Could not bind listening port: ", bind_addr_get_val),
                          Fatal("Error code: ", ec)>>
    /\ bind_arg' = BindAddress
    /\ exit_status' = 1
    /\ pc' = "exited"
    /\ UNCHANGED <<threadVars, cfg, g_dcf, m_client_type, m_clientconfig, m_hash, m_net_acceptor,
                   acceptors, ctx_options, trackerVars, histVars, sessVars>>

\* line 146; the constructor returns and its locals are gone
Start ==
    /\ pc = "start"
    /\ m_net_acceptor' = [m_net_acceptor EXCEPT !.started = TRUE]
    /\ ctx_options' = {}
    /\ pc' = "running"
    /\ UNCHANGED <<threadVars, cfg, g_dcf, exit_status, log, m_client_type, m_clientconfig, m_hash,
                   acceptors, bind_arg, trackerVars, histVars, sessVars>>

(***************************************************************************)
(* Accept callbacks (lines 155-198).                                       *)
(***************************************************************************)
\* the arguments of ClientFactory::singleton().instantiate_client(...) at
\* lines 173-174 and 196-197; the connection is the accepted socket or stream
instantiate_client(kind) ==
    [type |-> m_client_type, config |-> m_clientconfig, agent |-> "this",
     conn |-> [kind |-> kind, id |-> Len(factory_calls) + 1]]

\* the catch at lines 167-170 falling through to the factory call
AcceptVanished_instantiates(kind) ==
    /\ pc = "running"
    /\ m_net_acceptor.kind = kind
    /\ m_net_acceptor.started
    /\ Len(factory_calls) < MaxClients
    /\ lastAccept' = "dropped"
    /\ factory_calls' = Append(factory_calls, instantiate_client(kind))
    /\ UNCHANGED <<threadVars, procVars, agentVars, trackerVars, histVars, nclients>>

\* remote_endpoint() throws: the callback returns (lines 162-170, 185-193)
AcceptVanished(kind) ==
    /\ pc = "running"
    /\ m_net_acceptor.kind = kind
    /\ m_net_acceptor.started
    /\ lastAccept' = "dropped"
    /\ UNCHANGED <<threadVars, procVars, agentVars, trackerVars, histVars, nclients, factory_calls>>

\* the factory asked twice for the same connection
AcceptClient_twice(kind) ==
    /\ pc = "running"
    /\ m_net_acceptor.kind = kind
    /\ m_net_acceptor.started
    /\ Len(factory_calls) < MaxClients
    /\ factory_calls' = factory_calls \o <<instantiate_client(kind), instantiate_client(kind)>>
    /\ nclients' = nclients + 1
    /\ lastAccept' = "instantiated"
    /\ UNCHANGED <<threadVars, procVars, agentVars, trackerVars, histVars>>

\* the peer is there: the factory builds the client (lines 171-174, 194-197)
AcceptClient(kind) ==
    /\ pc = "running"
    /\ m_net_acceptor.kind = kind
    /\ m_net_acceptor.started
    /\ Len(factory_calls) < MaxClients
    /\ factory_calls' = Append(factory_calls, instantiate_client(kind))
    /\ nclients' = nclients + 1
    /\ lastAccept' = "instantiated"
    /\ UNCHANGED <<threadVars, procVars, agentVars, trackerVars, histVars>>

\* the peer is there and instantiate_client raises: the call is not inside a
\* try block, so the exception leaves the callback (lines 171-174, 194-197)
AcceptThrows(kind) ==
    /\ pc = "running"
    /\ m_net_acceptor.kind = kind
    /\ m_net_acceptor.started
    /\ Len(factory_calls) < MaxClients
    /\ factory_calls' = Append(factory_calls, instantiate_client(kind))
    /\ lastAccept' = "failed"
    /\ pc' = "threw"
    /\ UNCHANGED <<threadVars, cfg, g_dcf, exit_status, log, agentVars, trackerVars, histVars,
                   nclients>>

handle_tcp == AcceptVanished("tcp") \/ AcceptClient("tcp") \/ AcceptThrows("tcp")
handle_ssl == AcceptVanished("ssl") \/ AcceptClient("ssl") \/ AcceptThrows("ssl")

(***************************************************************************)
(* The sessions' calls into the tracker.                                   *)
(***************************************************************************)
SessionAlloc ==
    /\ pc = "running"
    /\ nclients >= 1
    /\ nAlloc + nFree < MaxOps
    /\ LET r == alloc_channel(m_next, m_max, m_unused_channels) IN
          /\ m_next' = r.next
          /\ m_unused_channels' = r.unused
          /\ ret' = r.ret
          /\ path' = r.path
          /\ live' = IF r.ret # EXHAUSTED
                     THEN [live EXCEPT ![r.ret] = @ + 1] ELSE live
          /\ nReused' = IF r.path = "queue" THEN nReused + 1 ELSE nReused
    /\ lastOp' = "alloc"
    /\ nAlloc' = nAlloc + 1
    /\ UNCHANGED <<threadVars, procVars, agentVars, sessVars, m_max, ct_min, arg, nFree, relLog,
                   contract>>

SessionFree(channel) ==
    /\ pc = "running"
    /\ nclients >= 1
    /\ nAlloc + nFree < MaxOps
    /\ m_unused_channels' = free_channel(m_unused_channels, channel)
    /\ arg' = channel
    /\ live' = IF live[channel] > 0 THEN [live EXCEPT ![channel] = @ - 1] ELSE live
    /\ relLog' = Append(relLog, channel)
    /\ lastOp' = "free"
    /\ nFree' = nFree + 1
    /\ contract' = (contract /\ live[channel] > 0)
    /\ UNCHANGED <<threadVars, procVars, agentVars, sessVars, m_next, m_max, ct_min, ret, path,
                   nAlloc, nReused>>

Next ==
    \/ ValidateOk
    \/ ValidateFail
    \/ CtorMembers
    \/ CtorHash
    \/ SelectTcp
    \/ SelectFatal
    \/ SelectSsl
    \/ SelectSslThrows
    \/ BindOk
    \/ BindFail
    \/ Start
    \/ handle_tcp
    \/ handle_ssl
    \/ SessionAlloc
    \/ \E channel \in Channels : SessionFree(channel)

Spec == Init /\ [][Next]_vars

(***************************************************************************)
(* Properties of the ChannelTracker.                                       *)
(***************************************************************************)
TrackerBuilt == pc \in {"hash", "transport", "bind", "start", "running"}

\* C1: for any sequence of allocate/release calls, no two channels returned
\* by allocations that are both still live are equal, i.e. no channel value
\* is held by more than one live allocation.
C1_LiveChannelsDistinct == \A c \in Channels : live[c] <= 1

\* C2: over [min,max] with min <= max and no release so far, the k-th
\* allocate call returns min + k - 1 for k = 1 .. max-min+1, and call number
\* max-min+2 returns EXHAUSTED.
C2_RangeInOrderThenExhausted ==
    (TrackerBuilt /\ ct_min <= m_max /\ nFree = 0 /\ nAlloc >= 1) =>
        LET n == m_max - ct_min + 1 IN
           /\ (nAlloc <= n => ret = ct_min + nAlloc - 1)
           /\ (nAlloc = n + 1 => ret = EXHAUSTED)

\* C2 witness: a range of at least two ids handed out in full, no release,
\* and the following call found nothing left.
C2_Witness ==
    /\ ct_min < m_max
    /\ nFree = 0
    /\ nAlloc = m_max - ct_min + 2
    /\ path = "exhausted"
    /\ ret = EXHAUSTED

C3_Step ==
    nAlloc' = nAlloc + 1 =>
       /\ m_next <= m_max =>
             /\ ret' = m_next
             /\ m_unused_channels' = m_unused_channels
       /\ (m_next > m_max /\ m_unused_channels # <<>>) =>
             /\ ret' = Head(m_unused_channels)
             /\ m_unused_channels' = Tail(m_unused_channels)
             /\ ret' = relLog[nReused']

\* C3: an allocate call made while the cursor has not passed max returns
\* the cursor value and leaves the reuse queue as it was, even when the
\* queue is not empty; one made after the cursor has passed max returns the
\* oldest released id not yet reused (the k-th reuse returns the k-th
\* released id) and removes it from the queue.
C3_CursorFirstThenFifo == [][C3_Step]_vars

\* C3 witness: with two ids released, the cursor past max, the latest
\* allocate returned the older one and the younger one still waits.
C3_Witness ==
    /\ ct_min <= m_max
    /\ lastOp = "alloc"
    /\ path = "queue"
    /\ Len(relLog) >= 2
    /\ ret = relLog[1]
    /\ relLog[2] # relLog[1]
    /\ m_unused_channels = <<relLog[2]>>

C4_Step ==
    nAlloc' = nAlloc + 1 =>
       /\ (ret' = EXHAUSTED) <=> (m_next > m_max /\ m_unused_channels = <<>>)
       /\ (ret' = EXHAUSTED) =>
             (m_next' = m_next /\ m_unused_channels' = m_unused_channels)
       /\ pc' = "running"

\* C4: an allocate call returns EXHAUSTED exactly when the cursor has
\* passed max and the reuse queue is empty; the call returns normally (the
\* process keeps running), an EXHAUSTED return leaves cursor and queue
\* unchanged, and no call that hands out a channel (cursor or queue branch)
\* returns the EXHAUSTED value.
C4_ExhaustedExactlyWhenEmpty == [][C4_Step]_vars

\* C5: for a tracker over a closed interval [min,max] (min <= max), every
\* non-EXHAUSTED value returned by allocate, after any sequence of
\* allocate/release calls, lies in [min,max] and outside the reserved range.
C5_ReturnedChannelInRange ==
    (ct_min <= m_max /\ nAlloc >= 1 /\ ret # EXHAUSTED) =>
        /\ ct_min <= ret
        /\ ret <= m_max
        /\ IsNotReservedChannel(ret)

C6_Step ==
    nFree' = nFree + 1 =>
       /\ m_unused_channels' = Append(m_unused_channels, arg')
       /\ m_next' = m_next
       /\ m_max' = m_max
       /\ pc' = pc
       /\ exit_status' = exit_status

\* C6: every release call, whatever id it is given, appends that id to the
\* tail of the reuse queue, leaving the cursor, max and the earlier queue
\* contents and their order unchanged, and the process running.
C6_ReleaseAppendsUnchecked == [][C6_Step]_vars

\* C6 witness: the invalid channel, never issued and outside the range,
\* was released twice and sits in the queue twice.
C6_Witness ==
    /\ lastOp = "free"
    /\ arg = INVALID_CHANNEL
    /\ Len(m_unused_channels) >= 2
    /\ m_unused_channels[Len(m_unused_channels)] = INVALID_CHANNEL
    /\ m_unused_channels[Len(m_unused_channels) - 1] = INVALID_CHANNEL
    /\ live[INVALID_CHANNEL] = 0

(***************************************************************************)
(* Properties of the start-up.                                             *)
(***************************************************************************)
TlsAsymmetric == (cfg.cert = "") # (cfg.key = "")
TlsAbsent == cfg.cert = "" /\ cfg.key = ""
TlsPresent == cfg.cert # "" /\ cfg.key # ""
BeforeTransport == {"boot", "ctor", "hash", "transport"}
ListenerExists == {"bind", "start", "running"}

\* C7: when exactly one of tls.certificate and tls.key_file is set, the
\* process never gets past transport selection: no acceptor is ever
\* constructed, bind is never called, and once the process has ended it has
\* ended by exit with a non-zero status.
C7_AsymmetricTlsIsFatal ==
    TlsAsymmetric =>
        /\ pc \in BeforeTransport \cup {"exited"}
        /\ pc = "exited" => exit_status # 0
        /\ m_net_acceptor = NullAcceptor
        /\ acceptors = {}
        /\ bind_arg = ""

\* C7 witness: a certificate without a key passed the constraints and the
\* constructor ended the process at line 97.
C7_Witness ==
    /\ cfg.cert # ""
    /\ cfg.key = ""
    /\ pc = "exited"
    /\ exit_status = 1
    /\ Len(log) = 1
    /\ log[1].msg = "TLS requested but either certificate or key is missing."

\* C8: the transport is a function of (certificate, key): both empty gives
\* the plaintext acceptor, whatever the chain file, and it is bound on the
\* configured address and then started; both set gives the TLS acceptor;
\* exactly one set gives none.  No run constructs more than one acceptor,
\* and every run that calls bind has exactly one.
C8_TransportSelection ==
    /\ Cardinality(acceptors) <= 1
    /\ TlsAsymmetric => acceptors = {}
    /\ (pc \in ListenerExists \/ bind_arg # "") =>
          /\ Cardinality(acceptors) = 1
          /\ m_net_acceptor.kind \in acceptors
          /\ TlsAbsent => m_net_acceptor.kind = "tcp"
          /\ TlsPresent => m_net_acceptor.kind = "ssl"
    /\ pc \in {"start", "running"} =>
          /\ bind_arg = cfg.bind
          /\ m_net_acceptor.bound = cfg.bind
    /\ pc = "running" => m_net_acceptor.started
    /\ m_net_acceptor.started => m_net_acceptor.bound = cfg.bind

\* C8 witness: no certificate and no key but a chain file: the plaintext
\* acceptor is the only acceptor and listens on the configured address.
C8_Witness ==
    /\ TlsAbsent
    /\ cfg.chain # ""
    /\ pc = "running"
    /\ m_net_acceptor = [kind |-> "tcp", bound |-> cfg.bind, started |-> TRUE]
    /\ acceptors = {"tcp"}

\* C9: when client.type names no registered client type, the process ends
\* at configuration validation with a non-zero status: the role is never
\* constructed, no acceptor exists, bind is never called and no connection
\* is ever accepted.
C9_UnknownClientTypeFailsBeforeBind ==
    cfg.ctype \notin RegisteredClientTypes =>
        /\ pc \in {"boot", "exited"}
        /\ pc = "exited" => exit_status # 0
        /\ m_client_type = ""
        /\ acceptors = {}
        /\ m_net_acceptor = NullAcceptor
        /\ bind_arg = ""
        /\ nclients = 0
        /\ lastAccept = "none"

\* C9 witness: the unknown client type ended the process before the
\* constructor ran.
C9_Witness ==
    /\ cfg.ctype \notin RegisteredClientTypes
    /\ pc = "exited"
    /\ exit_status = 1
    /\ m_client_type = ""

\* a channel range the start-up is said to refuse
BadChannelRange(c) ==
    \/ c.min > c.max
    \/ c.min = INVALID_CHANNEL
    \/ c.max = INVALID_CHANNEL
    \/ (c.min >= 1 /\ c.min <= ReservedMax)
    \/ (c.max >= 1 /\ c.max <= ReservedMax)

\* C10: a configuration with min > max, or with min or max invalid or
\* reserved, ends the process before the tracker is constructed and before
\* bind; every constructed tracker has min <= max and non-reserved bounds.
C10_ChannelRangeValidated ==
    /\ BadChannelRange(cfg) =>
          /\ pc \in {"boot", "ctor", "exited"}
          /\ bind_arg = ""
          /\ acceptors = {}
    /\ pc \in {"hash", "transport", "bind", "start", "running", "threw"} =>
          /\ ct_min <= m_max
          /\ IsNotInvalidChannel(ct_min) /\ IsNotInvalidChannel(m_max)
          /\ IsNotReservedChannel(ct_min) /\ IsNotReservedChannel(m_max)

(***************************************************************************)
(* Properties of the schema hash and of the accept callbacks.              *)
(***************************************************************************)
HashResolved == {"transport", "bind", "start", "running", "exited", "threw"}

C11_Step ==
    /\ (pc' \in HashResolved /\ m_client_type' # "") =>
          m_hash' = (IF cfg'.override > 0 THEN cfg'.override ELSE legacy_hash(g_dcf'))
    /\ pc \in HashResolved => m_hash' = m_hash

\* C11: once the constructor has resolved the hash, m_hash equals the
\* override when the override is > 0, whatever the DC file, and equals
\* legacy_hash of the DC file when the override is 0; no later step of the
\* process changes it.
C11_HashResolvedOnce == [][C11_Step]_vars

\* C11 witness: an agent with a non-zero override over the second DC file
\* is running with the override as its hash, which is not that file's
\* fingerprint.
C11_Witness ==
    /\ pc = "running"
    /\ cfg.override > 0
    /\ g_dcf = "dcB"
    /\ m_hash = cfg.override
    /\ m_hash # legacy_hash(g_dcf)
    /\ nAlloc >= 1

\* a step of an accept callback that returned at the catch
VanishedAccept == lastAccept # "dropped" /\ lastAccept' = "dropped"

C12_Step ==
    VanishedAccept =>
        /\ factory_calls' = factory_calls
        /\ nclients' = nclients
        /\ UNCHANGED <<trackerVars, histVars>>
        /\ log' = log
        /\ exit_status' = exit_status
        /\ pc = "running" /\ pc' = "running"
        /\ UNCHANGED agentVars
        /\ Len(factory_calls) < MaxClients => ENABLED AcceptClient(m_net_acceptor.kind)

\* C12: an accept callback (handle_tcp or handle_ssl) whose remote_endpoint()
\* throws makes no factory call, leaves the tracker and its history as they
\* were, writes no fatal diagnostic, leaves the process running with its
\* exit status untouched, and leaves the next accept callback able to build
\* a client.
C12_VanishedPeerIsIgnored == [][C12_Step]_vars

\* C12 witness: a TLS listener whose sessions have used the tracker has
\* handled an accept whose peer had gone, and is running.
C12_Witness ==
    /\ lastAccept = "dropped"
    /\ pc = "running"
    /\ m_net_acceptor.kind = "ssl"
    /\ nclients >= 1
    /\ nAlloc >= 1 /\ nFree >= 1

\* a step of an accept callback whose peer address resolved
ResolvedAccept ==
    \/ nclients' = nclients + 1
    \/ lastAccept # "failed" /\ lastAccept' = "failed"

C19_Step ==
    /\ ResolvedAccept =>
          /\ factory_calls' =
                Append(factory_calls,
                       [type |-> cfg.ctype, config |-> [type |-> cfg.ctype],
                        agent |-> "this",
                        conn |-> [kind |-> m_net_acceptor.kind,
                                  id |-> Len(factory_calls) + 1]])
          /\ UNCHANGED <<trackerVars, histVars>>
    /\ factory_calls' # factory_calls => ResolvedAccept

\* C19: an accept callback whose peer address resolves makes exactly one
\* instantiate_client call, with the configured client type, the stored
\* client configuration, the agent itself and the accepted connection, and
\* the callback makes no tracker call: cursor, queue and the call history
\* are the same after it as before it; no other step calls the factory.
C19_InstantiateOncePerAccept == [][C19_Step]_vars

\* C19 witness: a TLS accept has been handed to the factory once and the
\* tracker is still as the constructor left it.
C19_Witness ==
    /\ pc = "running"
    /\ lastAccept = "instantiated"
    /\ Len(factory_calls) = 1
    /\ factory_calls[1].type = DefaultClientType
    /\ factory_calls[1].conn.kind = "ssl"
    /\ nAlloc = 0 /\ nFree = 0
    /\ m_next = ct_min

(***************************************************************************)
(* Properties of the startup failures.                                     *)
(***************************************************************************)
\* the constructor was entered and the process ended before the listener
\* was started
StartupFailed ==
    /\ pc \in {"exited", "threw"}
    /\ m_client_type # ""
    /\ ~m_net_acceptor.started

\* the fatal diagnostics written so far
FatalLines == {i \in 1..Len(log) : log[i].level = "fatal"}

\* C13: every startup that fails in the constructor (asymmetric TLS options,
\* a certificate, key or chain file that does not load, a bind error) has
\* written a fatal diagnostic before the process ended, the diagnostic of a
\* bind error names the address that was handed to bind(), and exit() was
\* called with a non-zero status.
C13_FatalStartupIsDiagnosed ==
    StartupFailed =>
        /\ FatalLines # {}
        /\ pc = "exited" => exit_status # 0
        /\ bind_arg # "" => \E i \in FatalLines : log[i].arg = bind_arg

\* C14: when instantiate_client raises inside an accept callback the process
\* is still running afterwards and the failure has been reported.
C14_FactoryFailureIsContained ==
    lastAccept = "failed" => pc = "running" /\ log # <<>>

(***************************************************************************)
(* Order of the constructor's stages.                                      *)
(***************************************************************************)
TrackerConstructed == m_max # INVALID_CHANNEL
HashSet == m_hash # 0
TransportSelected == m_net_acceptor.kind # "null"
BindSucceeded == m_net_acceptor.bound # ""
Listening == m_net_acceptor.started
Ended == pc \in {"exited", "threw"}
AcceptCallbackRan == lastAccept # "none" \/ factory_calls # <<>>

C15_Step ==
    \* each stage begins only when the one before it is complete
    /\ (~TrackerConstructed /\ TrackerConstructed') =>
          m_client_type' = cfg.ctype /\ pc = "ctor" /\ ~HashSet
    /\ (~HashSet /\ HashSet') => TrackerConstructed /\ ~TransportSelected
    /\ (~TransportSelected /\ TransportSelected') => HashSet /\ bind_arg = ""
    /\ (bind_arg = "" /\ bind_arg' # "") => TransportSelected /\ ~Listening
    /\ (~Listening /\ Listening') => BindSucceeded /\ exit_status = 0
    \* nothing that was set up is taken back
    /\ TrackerConstructed => TrackerConstructed'
    /\ HashSet => HashSet'
    /\ TransportSelected => TransportSelected'
    /\ BindSucceeded => BindSucceeded'
    /\ Listening => Listening'
    \* exit() is called with a non-zero status and nothing runs after the end
    /\ pc' = "exited" => exit_status' # 0
    /\ Ended => UNCHANGED vars
    \* accept callbacks run on a started listener of an initialised agent
    /\ AcceptCallbackRan' =>
          TrackerConstructed' /\ HashSet' /\ BindSucceeded' /\ Listening'

RangeInOrder == TrackerConstructed /\ ct_min <= m_max

C16_Step ==
    /\ RangeInOrder' => ct_min' <= m_next' /\ m_next' <= m_max' + 1
    /\ RangeInOrder => m_next' >= m_next

\* C16: for every range with min <= max, the range ending at the largest
\* channel value included, the cursor m_next stays within min..max+1 and no
\* step makes it smaller.
C16_CursorBoundedMonotone == [][C16_Step]_vars

\* the ids the queue holds
QueuedIds == {m_unused_channels[i] : i \in 1..Len(m_unused_channels)}

\* C17: every id in the queue m_unused_channels was issued by alloc_channel
\* before (lies in min..m_next-1) and is not live.
C17_QueueHoldsIssuedDeadIds ==
    RangeInOrder =>
        \A c \in QueuedIds : ct_min <= c /\ c <= m_next - 1 /\ live[c] = 0

\* the ids held by live allocations, and the ids the cursor has not reached
LiveIds == {c \in Channels : live[c] > 0}
NeverIssued == m_next..m_max
Range == ct_min..m_max
NoDuplicates(q) == \A i, j \in 1..Len(q) : q[i] = q[j] => i = j
Conserved ==
    /\ LiveIds \cap QueuedIds = {}
    /\ LiveIds \cap NeverIssued = {}
    /\ QueuedIds \cap NeverIssued = {}
    /\ NoDuplicates(m_unused_channels)
    /\ \A c \in Channels : live[c] <= 1
    /\ LiveIds \cup QueuedIds \cup NeverIssued = Range

C20_Step ==
    /\ (RangeInOrder' /\ contract') =>
          /\ Conserved'
          /\ Cardinality(LiveIds') <= m_max' - ct_min' + 1
    /\ (RangeInOrder /\ contract /\ nAlloc' = nAlloc + 1) =>
          (ret' = EXHAUSTED <=> LiveIds = Range)

\* C20: for a tracker over min..max with min <= max whose callers release
\* only live ids, once per allocation, the live ids, the queued ids and the
\* ids from the cursor up to max are pairwise disjoint, the queue holds no
\* id twice, together they are exactly min..max, at most max-min+1 ids are
\* live, and alloc_channel returns EXHAUSTED exactly when every id of the
\* range is live at the call.
C20_Conservation == [][C20_Step]_vars

(***************************************************************************)
(* Two threads inside the ChannelTracker.  The class has no lock, so the   *)
(* statements of alloc_channel and free_channel of two threads interleave: *)
(* m_next++ is a read and a later write, front() and pop() are two calls,  *)
(* and push() reads the queue's end and later writes it.                   *)
(***************************************************************************)
\* a listening agent with one session, as Spec reaches it after Start and
\* one accept, over every range the constraints let through
InitThreads ==
    /\ cfg \in {c \in {[BaseConfig EXCEPT !.min = lo, !.max = hi] :
                          lo \in Channels, hi \in Channels} :
                   ConstraintsHold(c, {})}
    /\ g_dcf = "dcA"
    /\ pc = "running"
    /\ exit_status = 0
    /\ log = <<>>
    /\ m_client_type = cfg.ctype
    /\ m_clientconfig = [type |-> cfg.ctype]
    /\ m_hash = ResolveHash(cfg.override, g_dcf)
    /\ m_net_acceptor = [kind |-> "tcp", bound |-> cfg.bind, started |-> TRUE]
    /\ acceptors = {"tcp"}
    /\ ctx_options = {}
    /\ bind_arg = cfg.bind
    /\ m_next = cfg.min
    /\ m_max = cfg.max
    /\ m_unused_channels = <<>>
    /\ nclients = 1
    /\ lastAccept = "instantiated"
    /\ factory_calls = <<[type |-> cfg.ctype, config |-> [type |-> cfg.ctype],
                          agent |-> "this", conn |-> [kind |-> "tcp", id |-> 1]]>>
    /\ ct_min = cfg.min
    /\ lastOp = "none"
    /\ ret = EXHAUSTED
    /\ path = "none"
    /\ arg = INVALID_CHANNEL
    /\ live = [c \in Channels |-> 0]
    /\ nAlloc = 0
    /\ nFree = 0
    /\ relLog = <<>>
    /\ nReused = 0
    /\ contract = TRUE
    /\ tpc = [t \in Threads |-> "idle"]
    /\ tloc = [t \in Threads |-> NoLocal]

\* tracker calls begun so far, returned or not
CallsBegun == nAlloc + nFree + Cardinality({t \in Threads : tpc[t] # "idle"})

notTracker == <<procVars, agentVars, sessVars, m_max, ct_min>>

\* line 221 true, and the read of m_next that m_next++ starts with (line 223)
T_AllocReadCursor(t) ==
    /\ tpc[t] = "idle"
    /\ CallsBegun < MaxOps
    /\ m_next <= m_max
    /\ tloc' = [tloc EXCEPT ![t] = [c |-> m_next, q |-> <<>>]]
    /\ tpc' = [tpc EXCEPT ![t] = "increment"]
    /\ UNCHANGED <<notTracker, trackerVars, lastOp, ret, path, arg, live, nAlloc, nFree,
                   relLog, nReused, contract>>

\* the write of m_next++ and the return of the value read (line 223)
T_AllocWriteCursor(t) ==
    /\ tpc[t] = "increment"
    /\ m_next' = Inc(tloc[t].c)
    /\ ret' = tloc[t].c
    /\ path' = "cursor"
    /\ live' = IF tloc[t].c # EXHAUSTED THEN [live EXCEPT ![tloc[t].c] = @ + 1] ELSE live
    /\ lastOp' = "alloc"
    /\ nAlloc' = nAlloc + 1
    /\ tpc' = [tpc EXCEPT ![t] = "idle"]
    /\ tloc' = [tloc EXCEPT ![t] = NoLocal]
    /\ UNCHANGED <<notTracker, m_unused_channels, arg, nFree, relLog, nReused, contract>>

\* line 221 false, line 227 true, front() read (line 229)
T_AllocReadFront(t) ==
    /\ tpc[t] = "idle"
    /\ CallsBegun < MaxOps
    /\ ~(m_next <= m_max)
    /\ m_unused_channels # <<>>
    /\ tloc' = [tloc EXCEPT ![t] = [c |-> Head(m_unused_channels), q |-> <<>>]]
    /\ tpc' = [tpc EXCEPT ![t] = "pop"]
    /\ UNCHANGED <<notTracker, trackerVars, lastOp, ret, path, arg, live, nAlloc, nFree,
                   relLog, nReused, contract>>

\* pop() and the return of the value read (lines 230-231); pop() on a queue
\* the other thread has emptied is undefined: the queue is left with any
\* content of at most one id
T_AllocPop(t) ==
    /\ tpc[t] = "pop"
    /\ IF m_unused_channels # <<>>
       THEN m_unused_channels' = Tail(m_unused_channels)
       ELSE m_unused_channels' \in {<<>>} \cup {<<c>> : c \in Channels}
    /\ ret' = tloc[t].c
    /\ path' = "queue"
    /\ live' = IF tloc[t].c # EXHAUSTED THEN [live EXCEPT ![tloc[t].c] = @ + 1] ELSE live
    /\ nReused' = nReused + 1
    /\ lastOp' = "alloc"
    /\ nAlloc' = nAlloc + 1
    /\ tpc' = [tpc EXCEPT ![t] = "idle"]
    /\ tloc' = [tloc EXCEPT ![t] = NoLocal]
    /\ UNCHANGED <<notTracker, m_next, arg, nFree, relLog, contract>>

\* line 221 false, line 227 false, return 0 (line 234)
T_AllocExhausted(t) ==
    /\ tpc[t] = "idle"
    /\ CallsBegun < MaxOps
    /\ ~(m_next <= m_max)
    /\ m_unused_channels = <<>>
    /\ ret' = EXHAUSTED
    /\ path' = "exhausted"
    /\ lastOp' = "alloc"
    /\ nAlloc' = nAlloc + 1
    /\ UNCHANGED <<notTracker, trackerVars, arg, live, nFree, relLog, nReused, contract,
                   threadVars>>

\* free_channel(channel) entered: push() reads where the queue ends (line 239)
T_FreeRead(t, channel) ==
    /\ tpc[t] = "idle"
    /\ CallsBegun < MaxOps
    /\ tloc' = [tloc EXCEPT ![t] = [c |-> channel, q |-> m_unused_channels]]
    /\ tpc' = [tpc EXCEPT ![t] = "push"]
    /\ arg' = channel
    /\ live' = IF live[channel] > 0 THEN [live EXCEPT ![channel] = @ - 1] ELSE live
    /\ contract' = (contract /\ live[channel] > 0)
    /\ UNCHANGED <<notTracker, trackerVars, lastOp, ret, path, nAlloc, nFree, relLog,
                   nReused>>

\* push() writes the element after the end it read (line 239)
T_FreeWrite(t) ==
    /\ tpc[t] = "push"
    /\ m_unused_channels' = free_channel(tloc[t].q, tloc[t].c)
    /\ relLog' = Append(relLog, tloc[t].c)
    /\ lastOp' = "free"
    /\ nFree' = nFree + 1
    /\ tpc' = [tpc EXCEPT ![t] = "idle"]
    /\ tloc' = [tloc EXCEPT ![t] = NoLocal]
    /\ UNCHANGED <<notTracker, m_next, ret, path, arg, live, nAlloc, nReused, contract>>

NextThreads ==
    \/ \E t \in Threads : T_AllocReadCursor(t)
    \/ \E t \in Threads : T_AllocWriteCursor(t)
    \/ \E t \in Threads : T_AllocReadFront(t)
    \/ \E t \in Threads : T_AllocPop(t)
    \/ \E t \in Threads : T_AllocExhausted(t)
    \/ \E t \in Threads, channel \in Channels : T_FreeRead(t, channel)
    \/ \E t \in Threads : T_FreeWrite(t)

SpecThreads == InitThreads /\ [][NextThreads]_vars

\* no thread is inside a tracker call
Quiescent == \A t \in Threads : tpc[t] = "idle"

\* C18: with alloc_channel and free_channel called from two threads, on a
\* range with min <= max below the largest channel value and callers that
\* release only what they hold, every call acts as one atomic step: no
\* channel is held by two live allocations, and once no call is in progress
\* every released id is in the queue or has been issued again from it.
C18_TrackerCallsAtomic ==
    (RangeInOrder /\ contract /\ m_max < ChannelTop) =>
        /\ \A c \in Channels : live[c] <= 1
        /\ Quiescent => Len(m_unused_channels) + nReused = nFree

====
